---- MODULE Spec2Model ----
(***************************************************************************)
(* Model of cartiflette's preprocessing (src/cartiflette/s3/preprocess.py): *)
(*   - the transitive geometry resolver of preprocess_banatic,             *)
(*   - store_vectorfile_communes_arrondissement (commune enrichment),      *)
(*   - store_living_area (living-area join and dissolve),                  *)
(*   - preprocess_pipeline and preprocess_one_year (scheduling, keys),     *)
(*   - store_cog_ign, store_cog_year,                                      *)
(* and of the readers of src/cartiflette/public (download_file_single,     *)
(* download_file_multiple, get_cog_year,                                   *)
(* get_vectorfile_communes_arrondissement).                                *)
(* Tables are sequences of rows (pandas keeps row order); a row is a       *)
(* function from column names to values.                                   *)
(***************************************************************************)
EXTENDS Integers, Sequences, FiniteSets, TLC

VARIABLES
    membership,   \* preprocess_banatic: the membership table (input, then final)
    temp_geoms,   \* preprocess_banatic: working table of unresolved triples
    geoms_ok,     \* preprocess_banatic: list of per-round resolved tables
    pc,           \* preprocess_banatic: "loop", "done" or "raised" ("idle": not run)
    communes,         \* storage: the preprocessed COMMUNE table
    arrondissements,  \* storage: the preprocessed ARRONDISSEMENT_MUNICIPAL table
    available,        \* storage: the preprocessed tables that can be fetched
    fs_ok,            \* storage: whether writing an artifact succeeds
    enriched,         \* storage: the COMMUNE_ARRONDISSEMENTS_MUNICIPAUX artifact, if written
    enrich_result,    \* store_vectorfile_communes_arrondissement: "pending", "raised", "returned"
    bv_files,         \* storage: the living-area inventory files found by the glob
    bv_source,        \* store_living_area: the inventory vintage asked for
    bassins_commune,  \* storage: the commune-level living-area artifact, if written
    bassins_vie,      \* storage: the dissolved living-area artifact, if written
    living_result,    \* store_living_area: "pending" or "returned"
    logged,           \* the errors passed to logger.error
    runs,             \* how many times the operation under study has been run
    threads,          \* preprocess_pipeline: the value of THREADS_DOWNLOAD
    kwargs,           \* preprocess_pipeline: the (bucket, path_within_bucket, fs) passed
    shp,              \* storage: the raw shapefiles, as <<year, borders>>
    stale,            \* storage: whether an earlier run left its artifacts
    task,             \* preprocess_one_year: the progress of each year's call
    writes,           \* storage: the <<key, writer>> of every write of the run
    main,             \* preprocess_pipeline: "running", "done" or "raised"
    ign,              \* store_cog_ign: arguments, raw files, outcome
    cog,              \* store_cog_year / get_cog_year: raw files, storage, outcome
    dl                \* download_file_single / multiple: arguments, outcome

resolverVars == <<membership, temp_geoms, geoms_ok, pc>>
enrichVars == <<communes, arrondissements, available, fs_ok, enriched, enrich_result>>
livingVars == <<bv_files, bv_source, bassins_commune, bassins_vie, living_result>>
pipelineVars == <<threads, kwargs, shp, stale, task, writes, main>>
ingestVars == <<ign, cog>>
clientVars == <<dl>>
vars == <<resolverVars, enrichVars, livingVars, logged, runs, pipelineVars,
          ingestVars, clientVars>>

----------------------------------------------------------------------------
(* Bounds of the model *)

\* largest number of rows of the membership table
MaxRows == 3
\* largest number of iterations of the resolver loop that are explored
MaxRounds == 4
\* largest number of rows of the COMMUNE table
MaxCommunes == 3
\* largest number of rows of the ARRONDISSEMENT_MUNICIPAL table
MaxDistricts == 2
\* largest number of rows of the living-area inventory
MaxInventory == 3
\* largest POPULATION of a commune
MaxPopulation == 2
\* the year of the run of preprocess_pipeline (date.today().year)
CurrentYear == 2023
\* how many times an operation is run in a row
MaxRuns == 2
\* largest number of raw shapefiles that the glob of store_cog_ign finds
MaxFragments == 2
\* largest number of raw files of one level of the COG
MaxCogFiles == 1

----------------------------------------------------------------------------
(* Generic table helpers (pandas semantics) *)

\* the rows of table t at the indices of I, in table order
Pick(t, I) ==
    LET F[i \in 0..Len(t)] ==
            IF i = 0 THEN <<>>
            ELSE IF i \in I THEN Append(F[i - 1], t[i]) ELSE F[i - 1]
    IN  F[Len(t)]

\* DataFrame.drop_duplicates(keep="first")
DropDuplicates(t) ==
    Pick(t, {i \in 1..Len(t) : \A j \in 1..(i - 1) : t[j] # t[i]})

\* pd.concat of a list of tables
RECURSIVE Concat(_)
Concat(tables) ==
    IF tables = <<>> THEN <<>> ELSE Head(tables) \o Concat(Tail(tables))

\* the rows of a table as a set
Rows(t) == {t[i] : i \in 1..Len(t)}

\* the sets of at most k indices among 1..n
RECURSIVE IndexSets(_, _)
IndexSets(n, k) ==
    IF k = 0 THEN {{}}
    ELSE LET S == IndexSets(n, k - 1)
         IN  S \cup {s \cup {i} : s \in S, i \in 1..n}

\* selection of columns
Project(r, cols) == [c \in cols |-> r[c]]
ProjectAll(t, cols) == [i \in 1..Len(t) |-> Project(t[i], cols)]

----------------------------------------------------------------------------
(* preprocess_banatic: data *)

Groups == {"g1", "g2", "g3"}
AUTRE == "Autre organisme"

\* a missing geometry (NaN) and shapely's empty Polygon(); a geometry is the
\* set of the commune areas it covers
NullGeom == {"NaN"}
EmptyPolygon == {}

\* geoms: base commune geometries keyed by SIREN (siren_insee left-merged with
\* the communes); "x" is in the correspondence table but not in the base map
geoms ==
    << [SIREN |-> "c1", geometry |-> {"c1"}],
       [SIREN |-> "c2", geometry |-> {"c2"}],
       [SIREN |-> "x",  geometry |-> NullGeom] >>

\* the member rows a group may declare, in file order
MemberChoices ==
    << [MEMBRE_SIREN |-> "c1", MEMBRE_TYPE |-> "Commune"],
       [MEMBRE_SIREN |-> "c2", MEMBRE_TYPE |-> "Commune"],
       [MEMBRE_SIREN |-> "x",  MEMBRE_TYPE |-> "Commune"],
       [MEMBRE_SIREN |-> "x",  MEMBRE_TYPE |-> AUTRE],
       [MEMBRE_SIREN |-> "g1", MEMBRE_TYPE |-> "Groupement"],
       [MEMBRE_SIREN |-> "g1", MEMBRE_TYPE |-> AUTRE],
       [MEMBRE_SIREN |-> "g2", MEMBRE_TYPE |-> "Groupement"],
       [MEMBRE_SIREN |-> "g2", MEMBRE_TYPE |-> AUTRE],
       [MEMBRE_SIREN |-> "g3", MEMBRE_TYPE |-> "Groupement"],
       [MEMBRE_SIREN |-> "g3", MEMBRE_TYPE |-> AUTRE] >>

GroupOrder == <<"g1", "g2", "g3">>

\* every candidate row of the membership table, in file order
AllRows ==
    LET n == Len(MemberChoices)
    IN  [k \in 1..(Len(GroupOrder) * n) |->
            LET g == GroupOrder[((k - 1) \div n) + 1]
                m == MemberChoices[((k - 1) % n) + 1]
            IN  [SIREN |-> g, MEMBRE_TYPE |-> m.MEMBRE_TYPE,
                 MEMBRE_SIREN |-> m.MEMBRE_SIREN]]

\* the membership tables of the model: at most MaxRows distinct rows
Memberships == {Pick(AllRows, I) : I \in IndexSets(Len(AllRows), MaxRows)}

----------------------------------------------------------------------------
(* preprocess_banatic: the resolver *)

\* DataFrame.merge(right, left_on="MEMBRE_SIREN", right_on="SIREN", how="left"),
\* followed by the drop of SIREN_y and the rename of SIREN_x
MergeGeoms(left, right) ==
    LET F[i \in 0..Len(left)] ==
            IF i = 0 THEN <<>>
            ELSE LET l == left[i]
                     ms == Pick(right, {j \in 1..Len(right) :
                                            right[j].SIREN = l.MEMBRE_SIREN})
                 IN  F[i - 1] \o
                     (IF ms = <<>>
                      THEN << [SIREN |-> l.SIREN, MEMBRE_TYPE |-> l.MEMBRE_TYPE,
                               MEMBRE_SIREN |-> l.MEMBRE_SIREN,
                               geometry |-> NullGeom] >>
                      ELSE [k \in 1..Len(ms) |->
                              [SIREN |-> l.SIREN, MEMBRE_TYPE |-> l.MEMBRE_TYPE,
                               MEMBRE_SIREN |-> l.MEMBRE_SIREN,
                               geometry |-> ms[k].geometry]])
    IN  F[Len(left)]

\* variant: no empty polygon is given (the rows are left as merged)
SeedAutre_Skipped(t) == t

\* variant: every member that is not a commune is given an empty polygon
SeedAutre_AllOrganisms(t) ==
    [i \in 1..Len(t) |->
        IF t[i].MEMBRE_TYPE # "Commune"
        THEN [t[i] EXCEPT !.geometry = EmptyPolygon]
        ELSE t[i]]

\* members of type "Autre organisme" get an empty polygon
SeedAutre(t) ==
    [i \in 1..Len(t) |->
        IF t[i].MEMBRE_TYPE = AUTRE
        THEN [t[i] EXCEPT !.geometry = EmptyPolygon]
        ELSE t[i]]

\* GEOMS_COLLECTED: rows of the group with a geometry
GeomsCollected(t, g) ==
    Cardinality({i \in 1..Len(t) : t[i].SIREN = g /\ t[i].geometry # NullGeom})

\* GEOMS_TARGET: rows of the group
GeomsTarget(t, g) ==
    Cardinality({i \in 1..Len(t) : t[i].SIREN = g})

\* variant: a group is safe as soon as one geometry was collected
GeomSafe_AnyCollected(t, g) == GeomsCollected(t, g) > 0

\* GEOM_SAFE
GeomSafe(t, g) == GeomsCollected(t, g) = GeomsTarget(t, g)

PairKey(r) == <<r.SIREN, r.MEMBRE_SIREN>>

\* variant: the resolved rows are joined as collected
DropDuplicatePairs_Kept(t) == t

\* DataFrame.drop_duplicates(["SIREN", "MEMBRE_SIREN"])
DropDuplicatePairs(t) ==
    Pick(t, {i \in 1..Len(t) : \A j \in 1..(i - 1) : PairKey(t[j]) # PairKey(t[i])})

\* concat(geoms_ok).drop_duplicates(["SIREN", "MEMBRE_SIREN"])
GeomsGroupements(ok) == DropDuplicatePairs(Concat(ok))

\* variant: the re-merge only sees the base geometries
Resolved_BaseOnly(ok) == geoms

\* the right-hand table of the re-merge: resolved groups, then base geometries
Resolved(ok) ==
    ProjectAll(GeomsGroupements(ok), {"SIREN", "geometry"}) \o geoms

\* membership.merge(geoms_groupements, on=["SIREN", "MEMBRE_SIREN"], how="left")
MergeMembership(left, right) ==
    LET F[i \in 0..Len(left)] ==
            IF i = 0 THEN <<>>
            ELSE LET l == left[i]
                     ms == Pick(right, {j \in 1..Len(right) :
                                            PairKey(right[j]) = PairKey(l)})
                 IN  F[i - 1] \o
                     (IF ms = <<>>
                      THEN << [SIREN |-> l.SIREN, MEMBRE_TYPE |-> l.MEMBRE_TYPE,
                               MEMBRE_SIREN |-> l.MEMBRE_SIREN,
                               geometry |-> NullGeom] >>
                      ELSE [k \in 1..Len(ms) |->
                              [SIREN |-> l.SIREN, MEMBRE_TYPE |-> l.MEMBRE_TYPE,
                               MEMBRE_SIREN |-> l.MEMBRE_SIREN,
                               geometry |-> ms[k].geometry]])
    IN  F[Len(left)]

\* the other operations are not run
ResolverIdle ==
    /\ membership = <<>>
    /\ temp_geoms = <<>>
    /\ geoms_ok = <<>>
    /\ pc = "idle"

EnrichIdle ==
    /\ communes = [columns |-> {}, rows |-> <<>>]
    /\ arrondissements = [columns |-> {}, rows |-> <<>>]
    /\ available = {}
    /\ fs_ok = TRUE
    /\ enriched = {}
    /\ enrich_result = "idle"

LivingIdle ==
    /\ bv_files = <<>>
    /\ bv_source = "FondsDeCarte_BV_2022"
    /\ bassins_commune = {}
    /\ bassins_vie = {}
    /\ living_result = "idle"

PipelineIdle ==
    /\ threads = 1
    /\ kwargs = <<>>
    /\ shp = {}
    /\ stale = FALSE
    /\ task = <<>>
    /\ writes = {}
    /\ main = "idle"

IngestIdle ==
    /\ ign = [result |-> "idle"]
    /\ cog = [result |-> "idle"]

ClientIdle == dl = [result |-> "idle"]

InitResolver ==
    /\ membership \in Memberships
    /\ temp_geoms = MergeGeoms(membership, geoms)
    /\ geoms_ok = <<>>
    /\ pc = "loop"
    /\ logged = {}
    /\ EnrichIdle
    /\ LivingIdle
    /\ runs = 0
    /\ PipelineIdle
    /\ IngestIdle
    /\ ClientIdle

\* variant: a row is taken as soon as its own geometry is known
SafeRows_PerRow(t) == {i \in 1..Len(t) : t[i].geometry # NullGeom}

\* ix = temp_geoms[temp_geoms.GEOM_SAFE].index: the flag is computed per
\* SIREN and broadcast to all rows of the group
SafeRows(t) == {i \in 1..Len(t) : GeomSafe(t, t[i].SIREN)}

\* one iteration of `while not temp_geoms.empty`
Round ==
    /\ pc = "loop"
    /\ temp_geoms # <<>>
    /\ Len(geoms_ok) < MaxRounds
    /\ LET seeded == SeedAutre(temp_geoms)
           safe == SafeRows(seeded)
           moved == ProjectAll(Pick(seeded, safe),
                               {"SIREN", "MEMBRE_SIREN", "geometry"})
           rest == DropDuplicates(
                       ProjectAll(Pick(seeded, (1..Len(seeded)) \ safe),
                                  {"SIREN", "MEMBRE_TYPE", "MEMBRE_SIREN"}))
           ok == Append(geoms_ok, moved)
       IN  /\ geoms_ok' = ok
           /\ temp_geoms' = MergeGeoms(rest, Resolved(ok))
    /\ UNCHANGED <<membership, pc, enrichVars, livingVars, logged, runs,
                   pipelineVars, ingestVars, clientVars>>

\* the loop exits; the resolved geometries are joined to the membership table
\* (pd.concat of an empty list raises)
Finish ==
    /\ pc = "loop"
    /\ temp_geoms = <<>>
    /\ IF geoms_ok = <<>>
       THEN pc' = "raised" /\ UNCHANGED membership
       ELSE /\ pc' = "done"
            /\ membership' = MergeMembership(membership, GeomsGroupements(geoms_ok))
    /\ UNCHANGED <<temp_geoms, geoms_ok, enrichVars, livingVars, logged, runs,
                   pipelineVars, ingestVars, clientVars>>

Next == Round \/ Finish

Spec == InitResolver /\ [][Next]_vars

----------------------------------------------------------------------------
(* preprocess_banatic: properties *)

\* the SIRENs that are groups of the membership table
IsGroup(m) == \E i \in 1..Len(membership) : membership[i].SIREN = m
DeclaredGroups == {membership[i].SIREN : i \in 1..Len(membership)}

\* the member groups of a group
Children(g) ==
    {membership[i].MEMBRE_SIREN : i \in {k \in 1..Len(membership) :
        membership[k].SIREN = g /\ IsGroup(membership[k].MEMBRE_SIREN)}}

RECURSIVE Reach(_, _)
Reach(S, n) ==
    IF n = 0 THEN S ELSE Reach(S \cup UNION {Children(g) : g \in S}, n - 1)

Acyclic == \A g \in DeclaredGroups : g \notin Reach(Children(g), Cardinality(Groups))

SetMax(S) == IF S = {} THEN 0 ELSE CHOOSE x \in S : \A y \in S : y <= x

\* length of the longest membership chain below g (acyclic tables only)
RECURSIVE Depth(_)
Depth(g) == 1 + SetMax({Depth(c) : c \in Children(g)})

LongestChain == SetMax({Depth(g) : g \in DeclaredGroups})

HasBaseGeometry(m) ==
    \E k \in 1..Len(geoms) : geoms[k].SIREN = m /\ geoms[k].geometry # NullGeom

\* every leaf member has a base geometry or is an "Autre organisme"
LeavesResolvable ==
    \A i \in 1..Len(membership) :
        IsGroup(membership[i].MEMBRE_SIREN)
        \/ membership[i].MEMBRE_TYPE = AUTRE
        \/ HasBaseGeometry(membership[i].MEMBRE_SIREN)

\* the round in which a group was appended to geoms_ok (0: not resolved)
RoundOf(g) ==
    SetMax({i \in 1..Len(geoms_ok) : \E r \in Rows(geoms_ok[i]) : r.SIREN = g})

\* C1: whenever a round makes no progress (no group becomes resolved), the
\* loop ends in an error instead of iterating again
C1_NoProgressRaises ==
    (geoms_ok # <<>> /\ geoms_ok[Len(geoms_ok)] = <<>>) => pc = "raised"

\* C2: for an acyclic membership table whose leaf members all have a base
\* geometry or are of type "Autre organisme", the loop runs at most N times,
\* N the length of the longest membership chain, and is over after N rounds
C2_AtMostDepthRounds ==
    (Acyclic /\ LeavesResolvable) =>
        /\ Len(geoms_ok) <= LongestChain
        /\ (Len(geoms_ok) = LongestChain => temp_geoms = <<>>)

C2_Witness ==
    /\ pc = "done"
    /\ Acyclic /\ LeavesResolvable
    /\ LongestChain = 3
    /\ Len(geoms_ok) = 3

\* C3 (as stated): a group that has another group as a member is appended to
\* geoms_ok in a round strictly later than that member group
C3_ParentAfterChild ==
    \A i \in 1..Len(geoms_ok) : \A r \in Rows(geoms_ok[i]) :
        IsGroup(r.MEMBRE_SIREN) =>
            (RoundOf(r.MEMBRE_SIREN) > 0 /\ RoundOf(r.MEMBRE_SIREN) < i)

\* the membership table declares m as a member of g with a type other than
\* "Autre organisme"
PlainMember(g, m) ==
    \E k \in 1..Len(membership) :
        /\ membership[k].SIREN = g
        /\ membership[k].MEMBRE_SIREN = m
        /\ membership[k].MEMBRE_TYPE # AUTRE

\* C3 (amended): a group that has another group as a member of a type other
\* than "Autre organisme" (the member group having no base geometry of its
\* own) is appended to geoms_ok in a round strictly later than that member
C3_PlainParentAfterChild ==
    \A i \in 1..Len(geoms_ok) : \A r \in Rows(geoms_ok[i]) :
        (IsGroup(r.MEMBRE_SIREN) /\ PlainMember(r.SIREN, r.MEMBRE_SIREN)
            /\ ~HasBaseGeometry(r.MEMBRE_SIREN)) =>
            (RoundOf(r.MEMBRE_SIREN) > 0 /\ RoundOf(r.MEMBRE_SIREN) < i)

C3_Witness ==
    \E i \in 2..Len(geoms_ok) : \E r \in Rows(geoms_ok[i]) :
        /\ IsGroup(r.MEMBRE_SIREN)
        /\ PlainMember(r.SIREN, r.MEMBRE_SIREN)
        /\ RoundOf(r.MEMBRE_SIREN) = i - 1

\* C4: a group is moved to geoms_ok only when all of its rows carry a
\* geometry, so no triple of geoms_ok has a missing geometry
C4_NoMissingGeometryResolved ==
    \A i \in 1..Len(geoms_ok) : \A r \in Rows(geoms_ok[i]) :
        r.geometry # NullGeom

\* a round moved a group while another group, with a missing geometry, stayed
C4_Witness ==
    /\ \E i \in 1..Len(geoms_ok) : geoms_ok[i] # <<>>
    /\ \E j \in 1..Len(temp_geoms) : temp_geoms[j].geometry = NullGeom

\* the rows of group g in the working table all have a geometry, the rows of
\* type "Autre organisme" left aside
OthersCollected(t, g) ==
    \A j \in 1..Len(t) :
        t[j].SIREN = g =>
            (t[j].MEMBRE_TYPE = AUTRE \/ t[j].geometry # NullGeom)

\* C5: in every round, a group whose members other than those of type "Autre
\* organisme" all have a geometry is moved to geoms_ok in that round, its
\* "Autre organisme" members with an empty geometry
C5_AutreNeverBlocks ==
    [][Len(geoms_ok') = Len(geoms_ok) + 1 =>
        \A j \in 1..Len(temp_geoms) :
            OthersCollected(temp_geoms, temp_geoms[j].SIREN) =>
                /\ \A k \in 1..Len(temp_geoms') :
                       temp_geoms'[k].SIREN # temp_geoms[j].SIREN
                /\ [SIREN |-> temp_geoms[j].SIREN,
                    MEMBRE_SIREN |-> temp_geoms[j].MEMBRE_SIREN,
                    geometry |-> IF temp_geoms[j].MEMBRE_TYPE = AUTRE
                                 THEN EmptyPolygon
                                 ELSE temp_geoms[j].geometry]
                       \in Rows(geoms_ok'[Len(geoms_ok')])]_vars

\* a group of 3 declared members, one of them an "Autre organisme" without
\* any geometry of its own, was resolved in the first round
C5_Witness ==
    /\ Len(geoms_ok) >= 1
    /\ \E g \in Groups :
          /\ Cardinality({i \in 1..Len(membership) : membership[i].SIREN = g}) = 3
          /\ Cardinality({i \in 1..Len(geoms_ok[1]) : geoms_ok[1][i].SIREN = g}) = 3
          /\ [SIREN |-> g, MEMBRE_SIREN |-> "x", geometry |-> EmptyPolygon]
                \in Rows(geoms_ok[1])

\* the geometry of a group: the union of its members' geometries, a member
\* group contributing its own union; n bounds the depth of the descent
RECURSIVE UnionGeom(_, _)
UnionGeom(g, n) ==
    IF n = 0 THEN {}
    ELSE UNION {
        LET row == membership[i]
        IN  IF row.MEMBRE_TYPE = AUTRE THEN EmptyPolygon
            ELSE IF IsGroup(row.MEMBRE_SIREN)
                 THEN UnionGeom(row.MEMBRE_SIREN, n - 1)
                 ELSE UNION {geoms[k].geometry : k \in {k2 \in 1..Len(geoms) :
                                 geoms[k2].SIREN = row.MEMBRE_SIREN}}
        : i \in {k \in 1..Len(membership) : membership[k].SIREN = g}}

\* C6: once the resolver is over, the geometry of a membership row whose
\* member is a group is the union of the geometries of that group's members
C6_MemberGroupGeometryIsUnion ==
    pc = "done" =>
        \A i \in 1..Len(membership) :
            (IsGroup(membership[i].MEMBRE_SIREN)
                /\ membership[i].MEMBRE_TYPE # AUTRE) =>
                membership[i].geometry =
                    UnionGeom(membership[i].MEMBRE_SIREN, Cardinality(Groups) + 1)

----------------------------------------------------------------------------
(* store_vectorfile_communes_arrondissement: data *)

\* a missing value of a text column
NaN == "NaN"

\* a table with its columns (a DataFrame keeps them when it has no row)
Table(cols, rows) == [columns |-> cols, rows |-> rows]

\* the value of column c in row r, missing when the row has no such column
Cell(r, c) == IF c \in DOMAIN r THEN r[c] ELSE NaN

BigCities == {"Marseille", "Lyon", "Paris"}

\* the name columns and district-identifier columns a vintage may use; the
\* last of each is a schema the code does not know
NameColumns == {"NOM", "NOM_COM", "NOM_M"}
IdColumns == {"INSEE_ARM", "INSEE_RATT", "CODE_ARM"}

\* the records of the COMMUNE table; store_cog_ign concatenates every
\* territory fragment it finds, so that a city may come twice
CommuneChoices ==
    << [NAME |-> "Paris", INSEE_COM |-> "75056", INSEE_DEP |-> "75", INSEE_REG |-> "11"],
       [NAME |-> "Paris", INSEE_COM |-> "75056", INSEE_DEP |-> "75", INSEE_REG |-> "11"],
       [NAME |-> "Lyon", INSEE_COM |-> "69123", INSEE_DEP |-> "69", INSEE_REG |-> "84"],
       [NAME |-> "Marseille", INSEE_COM |-> "13055", INSEE_DEP |-> "13", INSEE_REG |-> "93"],
       [NAME |-> "Ambronay", INSEE_COM |-> "01007", INSEE_DEP |-> "01", INSEE_REG |-> "84"],
       [NAME |-> "Villeurbanne", INSEE_COM |-> "69266", INSEE_DEP |-> "69", INSEE_REG |-> "84"] >>

\* the records of the ARRONDISSEMENT_MUNICIPAL table: own code, code of the
\* city, and INSEE_DEP as store_cog_ign sets it (INSEE_COM[:2])
DistrictChoices ==
    << [NAME |-> "Paris 1er Arrondissement", CODE |-> "75101", INSEE_COM |-> "75056", INSEE_DEP |-> "75"],
       [NAME |-> "Paris 2e Arrondissement", CODE |-> "75102", INSEE_COM |-> "75056", INSEE_DEP |-> "75"],
       [NAME |-> "Lyon 1er Arrondissement", CODE |-> "69381", INSEE_COM |-> "69123", INSEE_DEP |-> "69"],
       [NAME |-> "Marseille 1er Arrondissement", CODE |-> "13201", INSEE_COM |-> "13055", INSEE_DEP |-> "13"] >>

CommuneRow(c, nameCol) ==
    (nameCol :> c.NAME)
        @@ [INSEE_COM |-> c.INSEE_COM, INSEE_DEP |-> c.INSEE_DEP,
            INSEE_REG |-> c.INSEE_REG]

DistrictRow(d, nameCol, idCol) ==
    (nameCol :> d.NAME) @@ (idCol :> d.CODE)
        @@ [INSEE_COM |-> d.INSEE_COM, INSEE_DEP |-> d.INSEE_DEP]

CommuneTable(I, nameCol) ==
    LET t == Pick(CommuneChoices, I)
    IN  Table({nameCol, "INSEE_COM", "INSEE_DEP", "INSEE_REG"},
              [i \in 1..Len(t) |-> CommuneRow(t[i], nameCol)])

DistrictTable(J, nameCol, idCol) ==
    LET t == Pick(DistrictChoices, J)
    IN  Table({nameCol, idCol, "INSEE_COM", "INSEE_DEP"},
              [i \in 1..Len(t) |-> DistrictRow(t[i], nameCol, idCol)])

----------------------------------------------------------------------------
(* store_vectorfile_communes_arrondissement: the operation *)

\* variant: a column that is not there reads as missing values, nothing raised
KeyError_Never(t, c) == FALSE

\* indexing a table by a column it does not have raises KeyError
KeyError(t, c) == c \notin t.columns

\* field = "NOM", or "NOM_COM" when communes["NOM"] raises KeyError
NameField(t) == IF KeyError(t, "NOM") THEN "NOM_COM" ELSE "NOM"

\* field = "INSEE_ARM", or "INSEE_RATT" when gdf_enrichi["INSEE_ARM"] raises
DistrictField(t) == IF KeyError(t, "INSEE_ARM") THEN "INSEE_RATT" ELSE "INSEE_ARM"

\* communes.loc[~communes[field].isin(...)] and communes.loc[communes[field].isin(...)]
SansGrandesVilles(t, field) ==
    Table(t.columns,
          Pick(t.rows, {i \in 1..Len(t.rows) : Cell(t.rows[i], field) \notin BigCities}))
GrandesVilles(t, field) ==
    Table(t.columns,
          Pick(t.rows, {i \in 1..Len(t.rows) : Cell(t.rows[i], field) \in BigCities}))

\* arrondissements.merge(communes_grandes_villes, on="INSEE_DEP",
\* suffixes=("", "_y")) without the columns ending with "_y": an inner join,
\* one row per pair of a district and a city record of its department, the
\* columns of the city kept where the district has none of that name
ArrondissementExtraInfo(arr, villes) ==
    LET cols == arr.columns \cup villes.columns
        F[i \in 0..Len(arr.rows)] ==
            IF i = 0 THEN <<>>
            ELSE LET l == arr.rows[i]
                     ms == Pick(villes.rows, {j \in 1..Len(villes.rows) :
                               villes.rows[j]["INSEE_DEP"] = l["INSEE_DEP"]})
                 IN  F[i - 1] \o
                     [k \in 1..Len(ms) |->
                        [c \in cols |-> IF c \in arr.columns THEN l[c] ELSE ms[k][c]]]
    IN  Table(cols, F[Len(arr.rows)])

\* pd.concat([a, b]): the columns of both, missing values where a row has none
ConcatTables(a, b) ==
    LET cols == a.columns \cup b.columns
        all == a.rows \o b.rows
    IN  Table(cols, [i \in 1..Len(all) |-> [c \in cols |-> Cell(all[i], c)]])

\* variant: the unified code is always the code of the commune
WithInseeCog_CommuneOnly(t, field) ==
    LET cols == (t.columns \ {field}) \cup {"INSEE_COG"}
    IN  Table(cols,
              [i \in 1..Len(t.rows) |->
                 [c \in cols |->
                    IF c = "INSEE_COG" THEN Cell(t.rows[i], "INSEE_COM")
                    ELSE t.rows[i][c]]])

\* INSEE_COG = np.where(field is null, INSEE_COM, field), then drop(field)
WithInseeCog(t, field) ==
    LET cols == (t.columns \ {field}) \cup {"INSEE_COG"}
    IN  Table(cols,
              [i \in 1..Len(t.rows) |->
                 [c \in cols |->
                    IF c = "INSEE_COG"
                    THEN IF Cell(t.rows[i], field) = NaN
                         THEN Cell(t.rows[i], "INSEE_COM")
                         ELSE Cell(t.rows[i], field)
                    ELSE t.rows[i][c]]])

\* gdf_enrichi before the unified code is computed
GdfConcat(com, arr) ==
    LET field == NameField(com)
    IN  ConcatTables(SansGrandesVilles(com, field),
                     ArrondissementExtraInfo(arr, GrandesVilles(com, field)))

\* gdf_enrichi as it is written
GdfEnrichi(com, arr) ==
    WithInseeCog(GdfConcat(com, arr), DistrictField(GdfConcat(com, arr)))

Fetchable == {"ARRONDISSEMENT_MUNICIPAL", "COMMUNE"}

\* the city of every district is a record of the COMMUNE table
CitiesPresent(com, arr) ==
    \A i \in 1..Len(arr.rows) : \E j \in 1..Len(com.rows) :
        com.rows[j]["INSEE_COM"] = arr.rows[i]["INSEE_COM"]

InitEnrich ==
    /\ \E nameCol \in NameColumns, idCol \in IdColumns,
          I \in IndexSets(Len(CommuneChoices), MaxCommunes),
          J \in IndexSets(Len(DistrictChoices), MaxDistricts) :
            /\ communes = CommuneTable(I, nameCol)
            /\ arrondissements = DistrictTable(J, nameCol, idCol)
    /\ CitiesPresent(communes, arrondissements)
    /\ available \in SUBSET Fetchable
    /\ fs_ok \in BOOLEAN
    /\ enriched = {}
    /\ enrich_result = "pending"
    /\ logged = {}
    /\ ResolverIdle
    /\ LivingIdle
    /\ runs = 0
    /\ PipelineIdle
    /\ IngestIdle
    /\ ClientIdle

\* variant: the artifact is opened for appending
WriteFile_Append(old, table) ==
    IF old = {} THEN {table}
    ELSE {Table(t.columns \cup table.columns, t.rows \o table.rows) : t \in old}

\* `with fs.open(path, "wb") as f: gdf.to_file(f, ...)`: the artifact at the
\* key is replaced by the table
WriteFile(old, table) == {table}

\* store_vectorfile_communes_arrondissement(year), run up to MaxRuns times
StoreVectorfileCommunesArrondissement ==
    /\ enrich_result # "idle"
    /\ runs < MaxRuns
    /\ runs' = runs + 1
    /\ IF ~(Fetchable \subseteq available)
       THEN \* the fetch fails and is logged; communes is then unbound
            /\ logged' = logged \cup {"fetch"}
            /\ enrich_result' = "raised"
            /\ UNCHANGED enriched
       ELSE IF KeyError(communes, NameField(communes))
                 \/ KeyError(GdfConcat(communes, arrondissements),
                             DistrictField(GdfConcat(communes, arrondissements)))
       THEN /\ enrich_result' = "raised"
            /\ UNCHANGED <<enriched, logged>>
       ELSE IF fs_ok
       THEN /\ enriched' = WriteFile(enriched, GdfEnrichi(communes, arrondissements))
            /\ enrich_result' = "returned"
            /\ UNCHANGED logged
       ELSE /\ logged' = logged \cup {"write"}
            /\ enrich_result' = "returned"
            /\ UNCHANGED enriched
    /\ UNCHANGED <<communes, arrondissements, available, fs_ok, resolverVars,
                   livingVars, pipelineVars, ingestVars, clientVars>>

NextEnrich == StoreVectorfileCommunesArrondissement

SpecEnrich == InitEnrich /\ [][NextEnrich]_vars

----------------------------------------------------------------------------
(* store_vectorfile_communes_arrondissement: properties *)

\* the number of rows of the COMMUNE table not named Paris, Lyon or Marseille
OrdinaryCount ==
    Cardinality({i \in 1..Len(communes.rows) :
        Cell(communes.rows[i], NameField(communes)) \notin BigCities})

\* C7: the enriched table has no missing INSEE_COG and as many rows as there
\* are communes not named Paris, Lyon or Marseille plus municipal districts
C7_CodeCompleteAndRowCount ==
    \A t \in enriched :
        /\ \A i \in 1..Len(t.rows) : t.rows[i]["INSEE_COG"] # NaN
        /\ Len(t.rows) = OrdinaryCount + Len(arrondissements.rows)

\* C8: in the enriched table no unit comes in more than one row and no row
\* is named Paris, Lyon or Marseille
C8_NoUnitTwiceNoBigCity ==
    \A t \in enriched :
        /\ \A i, j \in 1..Len(t.rows) :
              t.rows[i]["INSEE_COG"] = t.rows[j]["INSEE_COG"] => i = j
        /\ \A i \in 1..Len(t.rows) :
              Cell(t.rows[i], NameField(communes)) \notin BigCities

\* the vintage has none of the columns the code knows
NoNameColumn == {"NOM", "NOM_COM"} \cap communes.columns = {}
NoDistrictColumn ==
    {"INSEE_ARM", "INSEE_RATT"}
        \cap (communes.columns \cup arrondissements.columns) = {}

\* C9: when the COMMUNE table has neither NOM nor NOM_COM, or the
\* concatenated table has neither INSEE_ARM nor INSEE_RATT, the operation
\* ends in an error raised to its caller and writes no artifact
C9_UnknownSchemaRaises ==
    (enrich_result \notin {"pending", "idle"}
        /\ Fetchable \subseteq available
        /\ (NoNameColumn \/ NoDistrictColumn)) =>
        (enrich_result = "raised" /\ enriched = {})

\* both inputs were fetched, the storage accepts writes, and the operation
\* raised for want of a district-identifier column alone
C9_Witness ==
    /\ enrich_result = "raised"
    /\ Fetchable \subseteq available
    /\ fs_ok
    /\ ~NoNameColumn
    /\ NoDistrictColumn
    /\ Len(arrondissements.rows) > 0

----------------------------------------------------------------------------
(* store_living_area: data *)

\* a missing POPULATION
NullPop == -1

\* the commune codes of the inventory; the last one is no commune of the
\* COMMUNE table
InventoryCodes == <<"01001", "01002", "99999">>

\* the (bv, libbv) pairs of the inventory in the order groupby sorts them,
\* missing values last
BvKeyOrder == << <<"01004", "Amberieu">>, <<"01033", "Valserhone">>, <<"01033", NaN>> >>

\* the inventory columns of a vintage
BvColumns(source) ==
    IF source = "FondsDeCarte_BV_2022" THEN <<"bv2022", "libbv2022">>
    ELSE <<"bv2012", "libbv2012">>

\* every candidate row of the inventory of a vintage, in file order
InventoryChoices(source) ==
    LET n == Len(BvKeyOrder)
    IN  [k \in 1..(Len(InventoryCodes) * n) |->
            LET code == InventoryCodes[((k - 1) \div n) + 1]
                key == BvKeyOrder[((k - 1) % n) + 1]
            IN  (BvColumns(source)[1] :> key[1])
                    @@ (BvColumns(source)[2] :> key[2])
                    @@ [codgeo |-> code]]

\* the inventory as the files the glob finds: none, one, or the rows split
\* over two files
InventoryFiles(rows) ==
    {<<>>, <<rows>>}
        \cup (IF Len(rows) >= 2 THEN {<<SubSeq(rows, 1, 1), SubSeq(rows, 2, Len(rows))>>}
              ELSE {})

Populations == {NullPop} \cup (1..MaxPopulation)

\* the COMMUNE tables of the living-area runs: each of the two communes is
\* absent or present with some POPULATION
LivingCommuneTables ==
    LET opt == Populations \cup {0}
        row(code, pop) ==
            IF pop = 0 THEN <<>>
            ELSE << [INSEE_COM |-> code, POPULATION |-> pop, geometry |-> {code}] >>
    IN  {Table({"INSEE_COM", "POPULATION", "geometry"},
               row("01001", p1) \o row("01002", p2)) : p1 \in opt, p2 \in opt}

----------------------------------------------------------------------------
(* store_living_area: the operation *)

\* communes.merge(bv, left_on="INSEE_COM", right_on="codgeo", how="right"):
\* every inventory row, with the columns of each commune it matches
MergeRight(com, inv, invCols) ==
    LET cols == com.columns \cup invCols
        F[i \in 0..Len(inv)] ==
            IF i = 0 THEN <<>>
            ELSE LET r == inv[i]
                     ms == Pick(com.rows, {j \in 1..Len(com.rows) :
                               com.rows[j]["INSEE_COM"] = r["codgeo"]})
                 IN  F[i - 1] \o
                     (IF ms = <<>>
                      THEN << [c \in cols |->
                                 IF c \in invCols THEN r[c]
                                 ELSE IF c = "POPULATION" THEN NullPop
                                 ELSE IF c = "geometry" THEN NullGeom
                                 ELSE NaN] >>
                      ELSE [k \in 1..Len(ms) |->
                              [c \in cols |->
                                 IF c \in invCols THEN r[c] ELSE ms[k][c]]])
    IN  Table(cols, F[Len(inv)])

\* bv["source"] = f"{provider}:{source}"
WithSource(t, source) ==
    Table(t.columns \cup {"source"},
          [i \in 1..Len(t.rows) |->
             [c \in t.columns \cup {"source"} |->
                IF c = "source" THEN <<"Insee", source>> ELSE t.rows[i][c]]])

\* bv.rename(dict(zip(rename, ["bv", "libbv"])), axis=1)
RenameBv(t, source) ==
    LET old == BvColumns(source)
        new(c) == IF c = old[1] THEN "bv" ELSE IF c = old[2] THEN "libbv" ELSE c
        cols == {new(c) : c \in t.columns}
    IN  Table(cols,
              [i \in 1..Len(t.rows) |->
                 [c \in cols |->
                    IF c = "bv" THEN t.rows[i][old[1]]
                    ELSE IF c = "libbv" THEN t.rows[i][old[2]]
                    ELSE t.rows[i][c]]])

BvKey(r) == <<r["bv"], r["libbv"]>>

\* variant: a missing POPULATION makes the sum of its group missing
PopulationSum_NaNPropagates(rows, key) ==
    LET F[i \in 0..Len(rows)] ==
            IF i = 0 THEN 0
            ELSE IF BvKey(rows[i]) # key THEN F[i - 1]
            ELSE IF F[i - 1] = NullPop \/ rows[i]["POPULATION"] = NullPop
                 THEN NullPop
                 ELSE F[i - 1] + rows[i]["POPULATION"]
    IN  F[Len(rows)]

\* aggfunc={"POPULATION": "sum"}: the sum over the rows of the group, the
\* missing values skipped
PopulationSum(rows, key) ==
    LET F[i \in 0..Len(rows)] ==
            IF i = 0 THEN 0
            ELSE IF BvKey(rows[i]) = key /\ rows[i]["POPULATION"] # NullPop
                 THEN F[i - 1] + rows[i]["POPULATION"]
                 ELSE F[i - 1]
    IN  F[Len(rows)]

\* the union of the geometries of the group, the missing ones left out
GeometryUnion(rows, key) ==
    UNION {rows[i]["geometry"] : i \in {j \in 1..Len(rows) :
              BvKey(rows[j]) = key /\ rows[j]["geometry"] # NullGeom}}

\* variant: dropna=True, the groups with a missing key are left out
Dissolve_DropNa(t) ==
    LET present == {k \in 1..Len(BvKeyOrder) :
                       /\ \E i \in 1..Len(t.rows) : BvKey(t.rows[i]) = BvKeyOrder[k]
                       /\ NaN \notin {BvKeyOrder[k][1], BvKeyOrder[k][2]}}
        keys == Pick(BvKeyOrder, present)
    IN  Table({"bv", "libbv", "geometry", "POPULATION"},
              [k \in 1..Len(keys) |->
                 [bv |-> keys[k][1], libbv |-> keys[k][2],
                  geometry |-> GeometryUnion(t.rows, keys[k]),
                  POPULATION |-> PopulationSum(t.rows, keys[k])]])

\* bv.dissolve(by=["bv", "libbv"], aggfunc={"POPULATION": "sum"},
\*             as_index=False, dropna=False): one row per key, keys sorted
Dissolve(t) ==
    LET present == {k \in 1..Len(BvKeyOrder) :
                       \E i \in 1..Len(t.rows) : BvKey(t.rows[i]) = BvKeyOrder[k]}
        keys == Pick(BvKeyOrder, present)
    IN  Table({"bv", "libbv", "geometry", "POPULATION"},
              [k \in 1..Len(keys) |->
                 [bv |-> keys[k][1], libbv |-> keys[k][2],
                  geometry |-> GeometryUnion(t.rows, keys[k]),
                  POPULATION |-> PopulationSum(t.rows, keys[k])]])

\* the commune-level table: merge, provenance, rename
BvCommune(com, files, source) ==
    RenameBv(WithSource(MergeRight(com, Concat(files),
                                   {"codgeo", BvColumns(source)[1], BvColumns(source)[2]}),
                        source),
             source)

InitLiving ==
    /\ bv_source \in {"FondsDeCarte_BV_2022", "FondsDeCarte_BV_2012"}
    /\ \E I \in IndexSets(Len(InventoryChoices(bv_source)), MaxInventory) :
          bv_files \in InventoryFiles(Pick(InventoryChoices(bv_source), I))
    /\ communes \in LivingCommuneTables
    /\ arrondissements = Table({}, <<>>)
    /\ available \in {{}, {"COMMUNE"}}
    /\ fs_ok \in BOOLEAN
    /\ enriched = {}
    /\ enrich_result = "idle"
    /\ bassins_commune = {}
    /\ bassins_vie = {}
    /\ living_result = "pending"
    /\ logged = {}
    /\ ResolverIdle
    /\ runs = 0
    /\ PipelineIdle
    /\ IngestIdle
    /\ ClientIdle

\* variant: the empty result of the glob is not checked
NoFileRetrieved_Unchecked(files) == FALSE

\* `if not files: raise ValueError(...)`: the glob matched no inventory file
NoFileRetrieved(files) == files = <<>>

\* store_living_area(year, bv_source), run up to MaxRuns times: every error
\* is caught and logged
StoreLivingArea ==
    /\ living_result # "idle"
    /\ runs < MaxRuns
    /\ runs' = runs + 1
    /\ living_result' = "returned"
    /\ IF NoFileRetrieved(bv_files)
       THEN /\ logged' = logged \cup {"no file"}
            /\ UNCHANGED <<bassins_commune, bassins_vie>>
       ELSE IF "COMMUNE" \notin available
       THEN /\ logged' = logged \cup {"fetch"}
            /\ UNCHANGED <<bassins_commune, bassins_vie>>
       ELSE IF ~fs_ok
       THEN /\ logged' = logged \cup {"write"}
            /\ UNCHANGED <<bassins_commune, bassins_vie>>
       ELSE /\ bassins_commune' =
                  WriteFile(bassins_commune, BvCommune(communes, bv_files, bv_source))
            /\ bassins_vie' =
                  WriteFile(bassins_vie,
                            Dissolve(BvCommune(communes, bv_files, bv_source)))
            /\ UNCHANGED logged
    /\ UNCHANGED <<bv_files, bv_source, communes, arrondissements, available,
                   fs_ok, enriched, enrich_result, resolverVars, pipelineVars,
                   ingestVars, clientVars>>

NextLiving == StoreLivingArea

SpecLiving == InitLiving /\ [][NextLiving]_vars

\* the two derivations, each on its own inputs
InitDerive == InitEnrich \/ InitLiving

NextDerive == NextEnrich \/ NextLiving

SpecDerive == InitDerive /\ [][NextDerive]_vars

----------------------------------------------------------------------------
(* store_living_area: properties *)

\* the sum of f over the set S
RECURSIVE SumOver(_, _)
SumOver(S, f) ==
    IF S = {} THEN 0
    ELSE LET x == CHOOSE y \in S : TRUE
         IN  f[x] + SumOver(S \ {x}, f)

\* the members of a living area in the commune-level table
Members(t, area) ==
    {i \in 1..Len(t.rows) :
        t.rows[i]["bv"] = area["bv"] /\ t.rows[i]["libbv"] = area["libbv"]}

\* the POPULATION of each row of the commune-level table, 0 when missing
PopulationOrZero(t) ==
    [i \in 1..Len(t.rows) |->
        IF t.rows[i]["POPULATION"] = NullPop THEN 0 ELSE t.rows[i]["POPULATION"]]

Unmatched(t) == {i \in 1..Len(t.rows) : t.rows[i]["INSEE_COM"] = NaN}

\* the commune-level rows behind the dissolved living area `area`
UnmatchedIn(t, area) == Unmatched(t) \cap Members(t, area)

\* C11: an inventory row whose codgeo matches no INSEE_COM is reported by
\* store_living_area and is not passed silently into the persisted
\* commune-level table and the dissolved table
C11_UnmatchedReported ==
    living_result = "returned" =>
        /\ \A c \in bassins_commune :
              Unmatched(c) # {} => "unmatched" \in logged
        /\ \A c \in bassins_commune : \A d \in bassins_vie :
              \A k \in 1..Len(d.rows) :
                  UnmatchedIn(c, d.rows[k]) # {} => "unmatched" \in logged

----------------------------------------------------------------------------
(* Storage keys: the descriptors of the artifacts and the path encoder *)

\* the first vintage of preprocess_pipeline: range(2015, ...)
FirstYear == 2015

\* the vintages of the run, latest first:
\* list(range(2015, date.today().year + 1))[-1::-1]
Vintages == [i \in 1..(CurrentYear - FirstYear + 1) |-> CurrentYear + 1 - i]

Years == FirstYear..CurrentYear

\* the levels of store_cog_year and get_cog_year
Levels == <<"COMMUNE", "CANTON", "ARRONDISSEMENT", "DEPARTEMENT", "REGION",
            "COLLECTIVITE", "PAYS">>

\* the two layers preprocess_one_year passes to store_cog_ign
IgnBorders == <<"COMMUNE", "ARRONDISSEMENT_MUNICIPAL">>

\* config_dict of store_cog_year for one level
CogYearConfig(year, level) ==
    [provider |-> "cartiflette", dataset_family |-> "COG", source |-> level,
     year |-> year, borders |-> level, crs |-> "None", filter_by |-> "origin",
     value |-> "preprocessed", file_format |-> "parquet",
     territory |-> "france_entiere", simplification |-> 0,
     filename |-> <<level, "parquet">>]

\* variant: the layer does not enter the descriptor
CogIgnConfig_OneLayer(year, borders, territory) ==
    [provider |-> "cartiflette", dataset_family |-> "ADMINEXPRESS",
     source |-> "EXPRESS-COG-TERRITOIRE", year |-> year, borders |-> "COMMUNE",
     crs |-> "4326", filter_by |-> "origin", value |-> "preprocessed",
     file_format |-> "GPKG",
     territory |-> IF territory # "*" THEN territory ELSE "france_entiere",
     simplification |-> 0, filename |-> <<"COMMUNE", "gpkg">>]

\* config_dict of store_cog_ign
CogIgnConfig(year, borders, territory) ==
    [provider |-> "cartiflette", dataset_family |-> "ADMINEXPRESS",
     source |-> "EXPRESS-COG-TERRITOIRE", year |-> year, borders |-> borders,
     crs |-> "4326", filter_by |-> "origin", value |-> "preprocessed",
     file_format |-> "GPKG",
     territory |-> IF territory # "*" THEN territory ELSE "france_entiere",
     simplification |-> 0, filename |-> <<borders, "gpkg">>]

\* config_dict of store_vectorfile_communes_arrondissement
EnrichConfig(year) ==
    [provider |-> "cartiflette", dataset_family |-> "ADMINEXPRESS",
     source |-> "COMMUNE_ARRONDISSEMENTS_MUNICIPAUX", year |-> year,
     borders |-> "COMMUNE_ARRONDISSEMENTS_MUNICIPAUX", crs |-> "4326",
     filter_by |-> "origin", value |-> "preprocessed", file_format |-> "GPKG",
     territory |-> "france_entiere", simplification |-> 0,
     filename |-> <<"COMMUNE_ARRONDISSEMENTS_MUNICIPAUX", "gpkg">>]

\* f"bassins-vie-{bv_source.split('_')[-1]}"
BvFamily(source) ==
    IF source = "FondsDeCarte_BV_2022" THEN "bassins-vie-2022"
    ELSE "bassins-vie-2012"

\* first config_dict of store_living_area (commune level): no territory
LivingCommuneConfig(year, source) ==
    [provider |-> "cartiflette", dataset_family |-> BvFamily(source),
     source |-> "BV", year |-> year, borders |-> "COMMUNE", crs |-> "4326",
     filter_by |-> "origin", value |-> "preprocessed", file_format |-> "GPKG",
     territory |-> "None", simplification |-> 0,
     filename |-> <<"bassins_vie", "gpkg">>]

\* second config_dict of store_living_area (dissolved)
LivingAreaConfig(year, source) ==
    [provider |-> "cartiflette", dataset_family |-> BvFamily(source),
     source |-> "BV", year |-> year, borders |-> "BASSIN-VIE", crs |-> "4326",
     filter_by |-> "origin", value |-> "preprocessed", file_format |-> "GPKG",
     territory |-> "france_entiere", simplification |-> 0,
     filename |-> <<"bassins_vie", "gpkg">>]

\* create_path_bucket(config): the storage key, one path segment per field,
\* provider=/dataset_family=/source=/year=/administrative_level=/crs=/
\* {filter_by}={value}/file_format=/territory=/simplification=/filename
CreatePathBucket(config) ==
    <<config.provider, config.dataset_family, config.source, config.year,
      config.borders, config.crs, config.filter_by, config.value,
      config.file_format, config.territory, config.simplification,
      config.filename>>

----------------------------------------------------------------------------
(* preprocess_pipeline and preprocess_one_year *)

\* the values of THREADS_DOWNLOAD that are explored
ThreadsDownload == {1, 2}

\* the defaults of the parameters bucket, path_within_bucket and fs
DefaultStorage == <<"BUCKET", "PATH_WITHIN_BUCKET", "FS">>

\* the storage configurations preprocess_pipeline is called with: the
\* defaults, or a bucket, path and filesystem of the caller
StorageConfigs == {DefaultStorage, <<"bucket", "path_within_bucket", "fs">>}

\* the configuration preprocess_one_year receives: pool.map(preprocess_one_year,
\* years) passes the year alone, the plain loop passes **kwargs
OneYearKwargs == IF threads > 1 THEN DefaultStorage ELSE kwargs

\* the artifacts of store_cog_ign left on the storage by an earlier run
PreviousRunKeys ==
    {CreatePathBucket(CogIgnConfig(y, IgnBorders[b], "*")) :
        y \in Years, b \in 1..Len(IgnBorders)}

\* the keys that can be fetched
Stored ==
    {w[1] : w \in writes} \cup (IF stale THEN PreviousRunKeys ELSE {})

Finished(y) == task[y].pc \in {"done", "raised"}

Active(y) == task[y].pc \notin {"queued", "done", "raised"}

\* the position of vintage y in the list of vintages
IndexOf(y) == CHOOSE i \in 1..Len(Vintages) : Vintages[i] = y

\* the step after store_cog_year ... : `if year >= 2022`, `if 2012 <= year <= 2022`
AfterLiving2022(y) == IF 2012 <= y /\ y <= 2022 THEN "bv2012" ELSE "done"

AfterEnrich(y) == IF y >= 2022 THEN "bv2022" ELSE AfterLiving2022(y)

\* one call of a step of preprocess_one_year(y) is recorded
Stepped(y, step, pc2) ==
    [task EXCEPT ![y].pc = pc2, ![y].calls = @ \cup {step}]

\* the layers for which store_cog_ign(year=y) has been called
IgnDone(y) == {b \in 1..Len(IgnBorders) : IgnBorders[b] \in task[y].calls}

InitPipeline ==
    /\ threads \in ThreadsDownload
    /\ kwargs \in StorageConfigs
    /\ \E y \in Years, missing \in SUBSET {IgnBorders[1], IgnBorders[2]} :
          shp = {<<z, IgnBorders[b]>> : z \in Years, b \in 1..Len(IgnBorders)}
                    \ {<<y, m>> : m \in missing}
    /\ stale \in BOOLEAN
    /\ task = [y \in Years |-> [pc |-> "queued", calls |-> {}, kwargs |-> <<>>]]
    /\ writes = {}
    /\ main = "running"
    /\ logged = {}
    /\ runs = 0
    /\ ResolverIdle
    /\ EnrichIdle
    /\ LivingIdle
    /\ IngestIdle
    /\ ClientIdle

\* a call preprocess_one_year(y) starts: taken by a free worker of
\* ThreadPool(THREADS_DOWNLOAD), or the next iteration of the plain loop
StartYear(y) ==
    /\ main = "running"
    /\ task[y].pc = "queued"
    /\ \A z \in Years : IndexOf(z) < IndexOf(y) => task[z].pc # "queued"
    /\ IF threads > 1
       THEN Cardinality({z \in Years : Active(z)}) < threads
       ELSE \A z \in Years : IndexOf(z) < IndexOf(y) => task[z].pc = "done"
    /\ task' = [task EXCEPT ![y].pc = "cog", ![y].kwargs = OneYearKwargs]
    /\ UNCHANGED <<threads, kwargs, shp, stale, writes, main, logged>>

\* store_cog_year(year=y): one parquet file per level, data or not
PipelineCogYear(y) ==
    /\ task[y].pc = "cog"
    /\ task' = Stepped(y, "store_cog_year", "ign")
    /\ writes' = writes \cup
          {<<CreatePathBucket(CogYearConfig(y, Levels[l])), <<y, "year">>>> :
              l \in 1..Len(Levels)}
    /\ UNCHANGED <<threads, kwargs, shp, stale, main, logged>>

\* variant: the first result drawn from the pool ends the wait
AfterCogIgn_FirstResult(finished) == "enrich"

\* the position after a call of store_cog_ign returned: the `while True:
\* next(iterator)` loop, or the `for source in [...]` loop, ends when both
\* layers are through
AfterCogIgn(finished) ==
    IF finished = 1..Len(IgnBorders) THEN "enrich" ELSE "ign"

\* store_cog_ign(borders, year=y, territory="*"): by the two workers of
\* ThreadPool(2) in any order, or one after the other
PipelineCogIgn(y, b) ==
    /\ task[y].pc = "ign"
    /\ b \notin IgnDone(y)
    /\ threads > 1 \/ \A a \in 1..(b - 1) : a \in IgnDone(y)
    /\ task' = Stepped(y, IgnBorders[b], AfterCogIgn(IgnDone(y) \cup {b}))
    /\ IF <<y, IgnBorders[b]>> \in shp
       THEN /\ writes' = writes \cup
                  {<<CreatePathBucket(CogIgnConfig(y, IgnBorders[b], "*")),
                     <<y, IgnBorders[b]>>>>}
            /\ UNCHANGED logged
       ELSE /\ logged' = logged \cup {<<y, "no file", IgnBorders[b]>>}
            /\ UNCHANGED writes
    /\ UNCHANGED <<threads, kwargs, shp, stale, main>>

\* store_vectorfile_communes_arrondissement(year=y): when a fetch fails the
\* error is logged, then the use of the unbound table raises; the exception
\* leaves preprocess_one_year and, without a pool, preprocess_pipeline
PipelineEnrich(y) ==
    /\ task[y].pc = "enrich"
    /\ LET fetched == \A b \in 1..Len(IgnBorders) :
               CreatePathBucket(CogIgnConfig(y, IgnBorders[b], "*")) \in Stored
       IN  IF fetched
           THEN /\ task' = Stepped(y, "store_vectorfile_communes_arrondissement",
                                   AfterEnrich(y))
                /\ writes' = writes \cup
                      {<<CreatePathBucket(EnrichConfig(y)), <<y, "year">>>>}
                /\ UNCHANGED <<logged, main>>
           ELSE /\ task' = Stepped(y, "store_vectorfile_communes_arrondissement",
                                   "raised")
                /\ logged' = logged \cup {<<y, "fetch", "enrich">>}
                /\ main' = IF threads > 1 THEN main ELSE "raised"
                /\ UNCHANGED writes
    /\ UNCHANGED <<threads, kwargs, shp, stale>>

\* store_living_area(y, source): never raises; writes its two artifacts when
\* the preprocessed COMMUNE table can be fetched
PipelineLiving(y, source) ==
    /\ task[y].pc = (IF source = "FondsDeCarte_BV_2022" THEN "bv2022" ELSE "bv2012")
    /\ task' = Stepped(y, source,
                       IF source = "FondsDeCarte_BV_2022"
                       THEN AfterLiving2022(y) ELSE "done")
    /\ IF CreatePathBucket(CogIgnConfig(y, "COMMUNE", "*")) \in Stored
       THEN /\ writes' = writes \cup
                  {<<CreatePathBucket(LivingCommuneConfig(y, source)), <<y, "year">>>>,
                   <<CreatePathBucket(LivingAreaConfig(y, source)), <<y, "year">>>>}
            /\ UNCHANGED logged
       ELSE /\ logged' = logged \cup {<<y, "fetch", source>>}
            /\ UNCHANGED writes
    /\ UNCHANGED <<threads, kwargs, shp, stale, main>>

\* preprocess_pipeline returns: the loop is over or, with the pool, every
\* result was drawn from the iterator and every exception logged
PipelineReturn ==
    /\ main = "running"
    /\ \A y \in Years : Finished(y)
    /\ main' = "done"
    /\ logged' = logged \cup {<<y, "error", "preprocess_one_year">> :
                                 y \in {z \in Years : task[z].pc = "raised"}}
    /\ UNCHANGED <<threads, kwargs, shp, stale, task, writes>>

NextPipeline ==
    /\ UNCHANGED <<resolverVars, enrichVars, livingVars, runs, ingestVars,
                   clientVars>>
    /\ \/ \E y \in Years : StartYear(y)
       \/ \E y \in Years : PipelineCogYear(y)
       \/ \E y \in Years, b \in 1..Len(IgnBorders) : PipelineCogIgn(y, b)
       \/ \E y \in Years : PipelineEnrich(y)
       \/ \E y \in Years :
             \E source \in {"FondsDeCarte_BV_2022", "FondsDeCarte_BV_2012"} :
                 PipelineLiving(y, source)
       \/ PipelineReturn

SpecPipeline == InitPipeline /\ [][NextPipeline]_vars

----------------------------------------------------------------------------
(* preprocess_pipeline: properties *)

\* C13: with the pool (THREADS_DOWNLOAD > 1) and without it, an exception
\* raised by preprocess_one_year for one year is caught and logged, and every
\* other year still runs: preprocess_pipeline never ends by that exception,
\* and when it ends every year has run and every failure is logged
C13_YearFailureIsolated ==
    /\ main # "raised"
    /\ main = "done" =>
          \A y \in Years :
              /\ Finished(y)
              /\ task[y].pc = "raised" =>
                    <<y, "error", "preprocess_one_year">> \in logged

\* store_cog_ign(year=y) was called for a layer that has no shapefile
ShapefileMissed(y) ==
    \E b \in 1..Len(IgnBorders) :
        IgnBorders[b] \in task[y].calls /\ <<y, IgnBorders[b]>> \notin shp

Downstream ==
    {"store_vectorfile_communes_arrondissement", "FondsDeCarte_BV_2022",
     "FondsDeCarte_BV_2012"}

\* C14: when store_cog_ign finds no shapefile for COMMUNE or
\* ARRONDISSEMENT_MUNICIPAL of a year, the downstream steps of that year are
\* not executed, and the other years are still processed
C14_MissingShapefileSkipsDownstream ==
    \A y \in Years :
        ShapefileMissed(y) =>
            /\ task[y].calls \cap Downstream = {}
            /\ main # "raised"
            /\ main = "done" => \A z \in Years \ {y} : task[z].pc = "done"

\* two writers that can run at the same time: calls of preprocess_one_year
\* for two years, or the two calls of store_cog_ign of one year
Concurrent(u, v) ==
    \/ u[1] # v[1]
    \/ u[2] # "year" /\ v[2] # "year" /\ u[2] # v[2]

\* C15: with THREADS_DOWNLOAD > 1, no two concurrently runnable tasks write
\* the same storage key: no write goes to a key that a concurrently runnable
\* task writes or has written
C15_NoSharedKey ==
    [][threads > 1 =>
          \A w \in writes' \ writes : \A v \in writes' :
              Concurrent(w[2], v[2]) => w[1] # v[1]]_vars

\* the run with the pool is over: every year wrote its artifacts, and both
\* store_cog_ign tasks of the latest year wrote theirs
C15_Witness ==
    /\ threads > 1
    /\ main = "done"
    /\ \A y \in Years :
          \E w \in writes : w[2] = <<y, "year">> /\ w[1][2] = "ADMINEXPRESS"
    /\ \A b \in 1..Len(IgnBorders) :
          \E w \in writes : w[2] = <<CurrentYear, IgnBorders[b]>>

----------------------------------------------------------------------------
(* Idempotence of the two derivations *)

\* the keys an operation fetches for year y
EnrichReads(y) ==
    {CreatePathBucket(CogIgnConfig(y, IgnBorders[b], "*")) : b \in 1..Len(IgnBorders)}

LivingReads(y) == {CreatePathBucket(CogIgnConfig(y, "COMMUNE", "*"))}

\* the keys an operation writes for year y
EnrichWrites(y) == {CreatePathBucket(EnrichConfig(y))}

LivingWrites(y, source) ==
    {CreatePathBucket(LivingCommuneConfig(y, source)),
     CreatePathBucket(LivingAreaConfig(y, source))}

\* no operation fetches a key that it writes
ReadsNoneOfItsWrites ==
    \A y \in Years :
        /\ EnrichReads(y) \cap EnrichWrites(y) = {}
        /\ LivingReads(y) \cap LivingWrites(y, bv_source) = {}

C16_WitnessEnrich ==
    /\ runs = 2
    /\ enrich_result = "returned"
    /\ \E e \in enriched : \E i \in 1..Len(e.rows) : e.rows[i]["INSEE_COG"] # e.rows[i]["INSEE_COM"]

----------------------------------------------------------------------------
(* Provenance of the persisted artifacts *)

\* the table has a source column, each value of the form provider:source
HasProvenance(t) ==
    /\ "source" \in t.columns
    /\ \A i \in 1..Len(t.rows) :
          /\ Len(t.rows[i]["source"]) = 2
          /\ t.rows[i]["source"][1] \in {"Insee", "IGN"}

\* C17: every persisted artifact contains a source column of the form
\* provider:source; stated for the two artifacts of store_living_area, the
\* commune-level table and the dissolved table
C17_ArtifactsCarrySource ==
    \A t \in bassins_commune \cup bassins_vie : HasProvenance(t)

----------------------------------------------------------------------------
(* store_cog_ign *)

\* the units of the raw shapefiles; INSEE_COM as <<first two characters, rest>>
RawUnits ==
    << [INSEE_COM |-> <<"75", "056">>, geometry |-> {"75056"}],
       [INSEE_COM |-> <<"69", "123">>, geometry |-> {"69123"}],
       [INSEE_COM |-> <<"13", "055">>, geometry |-> {"13055"}] >>

\* the tables a raw shapefile may hold
RawShapefiles ==
    {Table({"INSEE_COM", "geometry"}, Pick(RawUnits, I)) : I \in SUBSET (1..Len(RawUnits))}

\* the results of fs.glob(pattern): up to MaxFragments shapefiles
RECURSIVE GlobResults(_)
GlobResults(n) ==
    IF n = 0 THEN {<<>>}
    ELSE GlobResults(n - 1) \cup
         {Append(fs, f) : fs \in {g \in GlobResults(n - 1) : Len(g) = n - 1},
                          f \in RawShapefiles}

\* the values of the year argument: a vintage, the default None, a wildcard
YearArguments == {"2022", "None", "*"}

\* `if not year: year = date.today().year`
YearOrToday(year) == IF year = "None" THEN ToString(CurrentYear) ELSE year

\* gdf["INSEE_DEP"] = gdf["INSEE_COM"].str[:2]
WithInseeDep(t) ==
    Table(t.columns \cup {"INSEE_DEP"},
          [i \in 1..Len(t.rows) |->
             [c \in t.columns \cup {"INSEE_DEP"} |->
                IF c = "INSEE_DEP" THEN t.rows[i]["INSEE_COM"][1] ELSE t.rows[i][c]]])

\* gdf["source"] = gdf["source_geometries"] = f"{provider}:{source}"
WithIgnSource(t) ==
    LET cols == t.columns \cup {"source", "source_geometries"}
    IN  Table(cols,
              [i \in 1..Len(t.rows) |->
                 [c \in cols |->
                    IF c \in {"source", "source_geometries"}
                    THEN <<"IGN", "EXPRESS-COG-TERRITOIRE">>
                    ELSE t.rows[i][c]]])

\* the table store_cog_ign writes: the fragments concatenated, INSEE_DEP for
\* the districts, the provenance columns
CogIgnTable(files, borders) ==
    LET gdf == Table({"INSEE_COM", "geometry"},
                     Concat([i \in 1..Len(files) |-> files[i].rows]))
    IN  WithIgnSource(IF borders = "ARRONDISSEMENT_MUNICIPAL"
                      THEN WithInseeDep(gdf) ELSE gdf)

InitCogIgn ==
    /\ \E year \in YearArguments, b \in 1..Len(IgnBorders),
          territory \in {"*", "metropole"}, files \in GlobResults(MaxFragments),
          writable \in BOOLEAN :
            ign = [year |-> year, borders |-> IgnBorders[b],
                   territory |-> territory, files |-> files,
                   writable |-> writable, out |-> {}, result |-> "pending"]
    /\ cog = [result |-> "idle"]
    /\ logged = {}
    /\ runs = 0
    /\ ResolverIdle
    /\ EnrichIdle
    /\ LivingIdle
    /\ PipelineIdle
    /\ ClientIdle

\* store_cog_ign(borders, year, territory): the whole body is in a try whose
\* except clause passes the exception to logger.error
StoreCogIgn ==
    /\ ign.result = "pending"
    /\ IF ign.year = "*"
       THEN /\ logged' = logged \cup {"wildcard"}
            /\ ign' = [ign EXCEPT !.result = "returned"]
       ELSE IF ign.files = <<>>
       THEN /\ logged' = logged \cup {"no file"}
            /\ ign' = [ign EXCEPT !.result = "returned"]
       ELSE IF ~ign.writable
       THEN /\ logged' = logged \cup {"write"}
            /\ ign' = [ign EXCEPT !.result = "returned"]
       ELSE /\ ign' = [ign EXCEPT
                  !.result = "returned",
                  !.out = WriteFile(@,
                      [key |-> CreatePathBucket(
                                  CogIgnConfig(YearOrToday(ign.year), ign.borders,
                                               ign.territory)),
                       table |-> CogIgnTable(ign.files, ign.borders)])]
            /\ UNCHANGED logged
    /\ UNCHANGED <<resolverVars, enrichVars, livingVars, runs, pipelineVars,
                   cog, clientVars>>

NextCogIgn == StoreCogIgn

SpecCogIgn == InitCogIgn /\ [][NextCogIgn]_vars

\* C18: store_cog_ign raises ValueError to its caller when year is '*' and
\* when no source shapefile is found
C18_CogIgnRaisesValueError ==
    (ign.result \notin {"idle", "pending"}
        /\ (ign.year = "*" \/ ign.files = <<>>)) =>
            ign.result = "ValueError"

----------------------------------------------------------------------------
(* download_file_single and download_file_multiple *)

\* the values of file_format that are explored, "xlsx" being unknown
FileFormats == {"gpkg", "GPKG", "parquet", "shp", "csv", "xlsx"}

\* file_format.lower()
Lower(format) == IF format = "GPKG" THEN "gpkg" ELSE format

\* create_format_standardized()
FormatStandardized ==
    [geojson |-> "geojson", geopackage |-> "GPKG", gpkg |-> "GPKG",
     shp |-> "shp", shapefile |-> "shp", geoparquet |-> "parquet",
     parquet |-> "parquet", topojson |-> "topojson", csv |-> "csv"]

\* standardize_inputs(file_format) raises KeyError on an unknown format
StandardizeRaises(format) == Lower(format) \notin DOMAIN FormatStandardized

\* format_read of standardize_inputs(file_format)
FormatRead(format) == FormatStandardized[Lower(format)]

\* the values of type_download that are explored
TypeDownloads == {"https", "bucket", "ftp"}

\* `type_download not in ("https", "bucket")`
BadTypeDownload(type) == type \notin {"https", "bucket"}

InitDownload ==
    /\ \E fn \in {"download_file_single", "download_file_multiple"},
          type \in TypeDownloads, format \in FileFormats, exists \in BOOLEAN :
            dl = [fn |-> fn, type_download |-> type, file_format |-> format,
                  exists |-> exists, accessed |-> 0, result |-> "pending"]
    /\ logged = {}
    /\ runs = 0
    /\ ResolverIdle
    /\ EnrichIdle
    /\ LivingIdle
    /\ PipelineIdle
    /\ IngestIdle

\* download_file_single(...): the format is standardized, then the download
\* type is checked, then the file is fetched and read
DownloadFileSingle ==
    /\ dl.fn = "download_file_single"
    /\ dl.result = "pending"
    /\ IF StandardizeRaises(dl.file_format)
       THEN dl' = [dl EXCEPT !.result = "KeyError"]
       ELSE IF BadTypeDownload(dl.type_download)
       THEN dl' = [dl EXCEPT !.result = "ValueError"]
       ELSE IF dl.type_download = "https" /\ FormatRead(dl.file_format) = "shp"
       THEN \* `for remote_file in files`: files is not bound on this branch
            dl' = [dl EXCEPT !.result = "NameError"]
       ELSE IF ~dl.exists
       THEN dl' = [dl EXCEPT !.result = "IOError", !.accessed = @ + 1]
       ELSE dl' = [dl EXCEPT !.result = "returned", !.accessed = @ + 1]
    /\ UNCHANGED <<resolverVars, enrichVars, livingVars, logged, runs,
                   pipelineVars, ingestVars>>

\* download_file_multiple(...): the download type is checked, then the call
\* of download_file_single is built with `*args**kwargs`, a power of a tuple
\* by a dict, which raises TypeError
DownloadFileMultiple ==
    /\ dl.fn = "download_file_multiple"
    /\ dl.result = "pending"
    /\ IF BadTypeDownload(dl.type_download)
       THEN dl' = [dl EXCEPT !.result = "ValueError"]
       ELSE dl' = [dl EXCEPT !.result = "TypeError"]
    /\ UNCHANGED <<resolverVars, enrichVars, livingVars, logged, runs,
                   pipelineVars, ingestVars>>

NextDownload == DownloadFileSingle \/ DownloadFileMultiple

SpecDownload == InitDownload /\ [][NextDownload]_vars

\* C19: download_file_single and download_file_multiple raise ValueError
\* whenever type_download is neither 'https' nor 'bucket', whatever the other
\* arguments (an unknown file_format included), before any access to the
\* storage or the network
C19_BadTypeDownloadRaisesValueError ==
    (dl.result \notin {"idle", "pending"}
        /\ dl.type_download \notin {"https", "bucket"}) =>
            /\ dl.result = "ValueError"
            /\ dl.accessed = 0

----------------------------------------------------------------------------
(* store_cog_year and get_cog_year *)

\* the raw files of one level: k files of one row each
CogFiles(level, k) ==
    [i \in 1..k |-> << [CODE |-> <<level, i>>] >>]

\* pd.concat(data) with the source column, or pd.DataFrame() without data
CogTable(level, files) ==
    IF files = <<>> THEN Table({}, <<>>)
    ELSE LET rows == Concat(files)
         IN  Table({"CODE", "source"},
                   [i \in 1..Len(rows) |->
                      [CODE |-> rows[i]["CODE"], source |-> <<"Insee", level>>]])

\* kwargs_cartiflette of get_cog_year for one level, as download_file_single
\* passes it to create_path_bucket
GetCogConfig(year, level) ==
    [provider |-> "cartiflette", dataset_family |-> "COG", source |-> level,
     year |-> year, borders |-> level, crs |-> "None", filter_by |-> "None",
     value |-> "None", file_format |-> FormatRead("parquet"),
     territory |-> "france_entiere", simplification |-> 0,
     filename |-> <<level, "parquet">>]

\* the artifacts at a key of the storage
FilesAt(store, key) == {f \in store : f.key = key}

InitCog ==
    /\ \E year \in {CurrentYear - 1, CurrentYear},
          counts \in [1..Len(Levels) -> 0..MaxCogFiles], writable \in BOOLEAN :
            cog = [year |-> year,
                   raw |-> [l \in 1..Len(Levels) |-> CogFiles(Levels[l], counts[l])],
                   writable |-> writable, store |-> {}, dict |-> {},
                   result |-> "pending"]
    /\ ign = [result |-> "idle"]
    /\ logged = {}
    /\ runs = 0
    /\ ResolverIdle
    /\ EnrichIdle
    /\ LivingIdle
    /\ PipelineIdle
    /\ ClientIdle

\* store_cog_year(year): one parquet file per level, an error on a level
\* being logged
StoreCogYear ==
    /\ cog.result = "pending"
    /\ IF cog.writable
       THEN /\ cog' = [cog EXCEPT
                  !.result = "stored",
                  !.store = {[key |-> CreatePathBucket(CogYearConfig(cog.year, Levels[l])),
                              table |-> CogTable(Levels[l], cog.raw[l])] :
                                l \in 1..Len(Levels)}]
            /\ UNCHANGED logged
       ELSE /\ cog' = [cog EXCEPT !.result = "stored"]
            /\ logged' = logged \cup {"write"}
    /\ UNCHANGED <<resolverVars, enrichVars, livingVars, runs, pipelineVars,
                   ign, clientVars>>

\* get_cog_year(year): one download_file_single per level, which raises
\* IOError when nothing is found at the key
GetCogYear ==
    /\ cog.result = "stored"
    /\ IF \A l \in 1..Len(Levels) :
             FilesAt(cog.store, CreatePathBucket(GetCogConfig(cog.year, Levels[l]))) # {}
       THEN cog' = [cog EXCEPT
                !.result = "returned",
                !.dict = UNION {{<<Levels[l], f.table>> :
                                    f \in FilesAt(cog.store,
                                        CreatePathBucket(GetCogConfig(cog.year, Levels[l])))} :
                                  l \in 1..Len(Levels)}]
       ELSE cog' = [cog EXCEPT !.result = "IOError"]
    /\ UNCHANGED <<resolverVars, enrichVars, livingVars, logged, runs,
                   pipelineVars, ign, clientVars>>

NextCog == StoreCogYear \/ GetCogYear

SpecCog == InitCog /\ [][NextCog]_vars

\* C20: after store_cog_year(year), get_cog_year(year) returns a dict with
\* exactly the seven levels, each holding the table that was persisted for it
\* (an empty table without data), the descriptor of the read being the
\* descriptor of the write
C20_GetReturnsWhatWasStored ==
    (cog.result \notin {"idle", "pending", "stored"} /\ cog.writable) =>
        /\ cog.result = "returned"
        /\ {d[1] : d \in cog.dict} = {Levels[l] : l \in 1..Len(Levels)}
        /\ \A l \in 1..Len(Levels) :
              /\ GetCogConfig(cog.year, Levels[l]) = CogYearConfig(cog.year, Levels[l])
              /\ <<Levels[l], CogTable(Levels[l], cog.raw[l])>> \in cog.dict

----------------------------------------------------------------------------
(* preprocess_banatic: progress and shape of the result *)

\* C21: each round of the resolver loop strictly decreases the number of
\* unresolved triples: the working table after a round has strictly fewer
\* rows than before it
C21_RoundStrictlyDecreases ==
    [][geoms_ok' # geoms_ok => Len(temp_geoms') < Len(temp_geoms)]_vars

SirensOf(t) == {t[i].SIREN : i \in 1..Len(t)}

\* C22: resolution is all-or-nothing per group: no group has rows both in
\* the resolved set geoms_ok and in the unresolved working table temp_geoms
C22_AllOrNothing ==
    SirensOf(Concat(geoms_ok)) \cap SirensOf(temp_geoms) = {}

\* a group of two rows was moved whole while another group still waits
C22_Witness ==
    /\ \E g \in SirensOf(Concat(geoms_ok)) :
           Cardinality({i \in 1..Len(membership) : membership[i].SIREN = g}) >= 2
    /\ temp_geoms # <<>>

MembershipColumns == {"SIREN", "MEMBRE_TYPE", "MEMBRE_SIREN"}

\* C28: when the loop exits, the final membership table has exactly one row
\* for every row of the original membership table, in the same order, and
\* every row has a non-null geometry
C28_OneRowPerMember ==
    [][pc' = "done" =>
        /\ Len(membership') = Len(membership)
        /\ ProjectAll(membership', MembershipColumns) = membership
        /\ \A i \in 1..Len(membership') : membership'[i].geometry # NullGeom]_vars

\* the loop has exited and some (SIREN, MEMBRE_SIREN) pair had been collected
\* more than once
C28_Witness ==
    /\ pc = "done"
    /\ Len(Concat(geoms_ok)) > Len(membership)

----------------------------------------------------------------------------
(* store_vectorfile_communes_arrondissement: the unified code *)

\* the district identifier column of the concatenated table
DistrictIdOf(t) == IF "INSEE_ARM" \in t.columns THEN "INSEE_ARM" ELSE "INSEE_RATT"

\* C23: in the enriched table INSEE_COG of a row is the row's district
\* identifier (INSEE_ARM if that column exists, otherwise INSEE_RATT) when it
\* is non-null and the row's INSEE_COM otherwise, and the district
\* identifier column used is absent from the persisted table
C23_UnifiedCode ==
    \A t \in enriched :
        LET before == GdfConcat(communes, arrondissements)
            id == DistrictIdOf(before)
        IN  /\ Len(t.rows) = Len(before.rows)
            /\ id \notin t.columns
            /\ \A i \in 1..Len(t.rows) :
                  /\ id \notin DOMAIN t.rows[i]
                  /\ t.rows[i]["INSEE_COG"] =
                        (IF before.rows[i][id] # NaN THEN before.rows[i][id]
                         ELSE before.rows[i]["INSEE_COM"])

\* the persisted table has a district, coded by its own identifier, and an
\* ordinary commune, coded by INSEE_COM
C23_Witness ==
    \E t \in enriched :
        /\ \E i \in 1..Len(t.rows) : t.rows[i]["INSEE_COG"] # t.rows[i]["INSEE_COM"]
        /\ \E i \in 1..Len(t.rows) :
              /\ t.rows[i]["INSEE_COG"] = t.rows[i]["INSEE_COM"]
              /\ t.rows[i]["INSEE_COG"] # NaN
        /\ "INSEE_RATT" \in arrondissements.columns

\* C30: when fetching the municipal districts or the communes fails, the
\* failure is logged and the operation returns to its caller without raising
\* and without writing the enriched artifact
C30_FetchFailureReturns ==
    (enrich_result \notin {"pending", "idle"} /\ ~(Fetchable \subseteq available)) =>
        /\ "fetch" \in logged
        /\ enrich_result = "returned"
        /\ enriched = {}

----------------------------------------------------------------------------
(* store_living_area: the groups of the dissolve *)

KeysOf(t) == {BvKey(t.rows[i]) : i \in 1..Len(t.rows)}

----------------------------------------------------------------------------
(* preprocess_one_year: order and windows of the steps *)

LivingSources == {"FondsDeCarte_BV_2022", "FondsDeCarte_BV_2012"}

\* C29: with and without the pool, store_vectorfile_communes_arrondissement
\* starts only after both store_cog_ign calls of the year have finished, and
\* store_living_area starts only after
\* store_vectorfile_communes_arrondissement has returned (the calls of a
\* year are recorded as they are made and a call that raised ends the year)
C29_StepsInOrder ==
    \A y \in DOMAIN task :
        /\ "store_vectorfile_communes_arrondissement" \in task[y].calls =>
              /\ IgnDone(y) = 1..Len(IgnBorders)
              /\ "store_cog_year" \in task[y].calls
        /\ task[y].calls \cap LivingSources # {} =>
              /\ "store_vectorfile_communes_arrondissement" \in task[y].calls
              /\ task[y].pc # "raised"

\* with the pool, the year 2022 went through the enrichment and both
\* living-area derivations while another year was still at work
C29_Witness ==
    /\ threads > 1
    /\ {"store_vectorfile_communes_arrondissement"} \cup LivingSources
          \subseteq task[2022].calls
    /\ \E z \in DOMAIN task : Active(z)

\* C25: for every year preprocess_one_year runs the 2012-vintage living-area
\* derivation if and only if 2012 <= year <= 2022 and the 2022-vintage one
\* if and only if year >= 2022; for 2022 both run and they write to
\* different storage keys
C25_LivingAreaWindows ==
    \A y \in DOMAIN task :
        /\ "FondsDeCarte_BV_2012" \in task[y].calls => (2012 <= y /\ y <= 2022)
        /\ "FondsDeCarte_BV_2022" \in task[y].calls => y >= 2022
        /\ Finished(y) =>
              /\ (2012 <= y /\ y <= 2022) => "FondsDeCarte_BV_2012" \in task[y].calls
              /\ y >= 2022 => "FondsDeCarte_BV_2022" \in task[y].calls
        /\ LivingSources \subseteq task[y].calls =>
              LivingWrites(y, "FondsDeCarte_BV_2022")
                  \cap LivingWrites(y, "FondsDeCarte_BV_2012") = {}

\* the part of C25 that holds: the windows, for the calls that were not
\* ended by an exception
LivingAreaWindowsWhenDone ==
    \A y \in DOMAIN task :
        /\ "FondsDeCarte_BV_2012" \in task[y].calls => (2012 <= y /\ y <= 2022)
        /\ "FondsDeCarte_BV_2022" \in task[y].calls => y >= 2022
        /\ task[y].pc = "done" =>
              /\ (2012 <= y /\ y <= 2022) => "FondsDeCarte_BV_2012" \in task[y].calls
              /\ y >= 2022 => "FondsDeCarte_BV_2022" \in task[y].calls
        /\ LivingSources \subseteq task[y].calls =>
              LivingWrites(y, "FondsDeCarte_BV_2022")
                  \cap LivingWrites(y, "FondsDeCarte_BV_2012") = {}

----------------------------------------------------------------------------
(* preprocess_pipeline: the storage configuration of the calls *)

\* the keys written, each with the storage configuration of the call of
\* preprocess_one_year that wrote it
WrittenKeys == {<<task[w[2][1]].kwargs, w[1]>> : w \in writes}

\* C26: for every (bucket, path_within_bucket, fs) passed to
\* preprocess_pipeline, with and without the pool every call of
\* preprocess_one_year receives that storage configuration, so that the keys
\* are written under it in both modes
C26_SameStorageInBothModes ==
    /\ \A y \in DOMAIN task : task[y].pc # "queued" => task[y].kwargs = kwargs
    /\ \A k \in WrittenKeys : k[1] = kwargs

----------------------------------------------------------------------------
(* get_vectorfile_communes_arrondissement *)

\* kwargs of get_vectorfile_communes_arrondissement, as download_file_single
\* passes it to create_path_bucket
GetEnrichConfig(year) ==
    [provider |-> "cartiflette", dataset_family |-> "ADMINEXPRESS",
     source |-> "EXPRESS-COG-TERRITOIRE", year |-> year, borders |-> "COMMUNE",
     crs |-> "4326", filter_by |-> "None", value |-> "None",
     file_format |-> FormatRead("GPKG"), territory |-> "france_entiere",
     simplification |-> 0,
     filename |-> <<"COMMUNE_ARRONDISSEMENTS_MUNICIPAUX", "gpkg">>]

\* get_vectorfile_communes_arrondissement(year), for the year the writer was
\* run with: download_file_single raises IOError when nothing is found at
\* the key
GetVectorfileCommunesArrondissement ==
    /\ enrich_result \notin {"idle", "pending"}
    /\ dl.result = "idle"
    /\ \E year \in {CurrentYear - 1, CurrentYear} :
          dl' = IF /\ enriched # {}
                   /\ CreatePathBucket(GetEnrichConfig(year))
                         = CreatePathBucket(EnrichConfig(year))
                THEN [result |-> "returned", year |-> year, gdf |-> enriched]
                ELSE [result |-> "IOError", year |-> year]
    /\ UNCHANGED <<resolverVars, enrichVars, livingVars, logged, runs,
                   pipelineVars, ingestVars>>

NextEnrichRead ==
    StoreVectorfileCommunesArrondissement \/ GetVectorfileCommunesArrondissement

SpecEnrichRead == InitEnrich /\ [][NextEnrichRead]_vars

\* the fields of a descriptor that C27 names
DescriptorFields ==
    {"provider", "dataset_family", "source", "year", "borders", "crs",
     "filter_by", "value", "territory", "simplification", "filename"}

\* C27: the descriptor that get_vectorfile_communes_arrondissement(year)
\* fetches is the descriptor under which
\* store_vectorfile_communes_arrondissement(year) persisted the enriched
\* table, so the reader retrieves the artifact the writer produced
C27_ReaderFindsWhatWriterStored ==
    dl.result # "idle" =>
        /\ \A f \in DescriptorFields :
              GetEnrichConfig(dl.year)[f] = EnrichConfig(dl.year)[f]
        /\ enriched # {} => (dl.result = "returned" /\ dl.gdf = enriched)

====
